---- MODULE Spec2Model ----
(***************************************************************************)
(* Model of the line-delimited JSON-RPC router of                          *)
(* src/enhanced-stdio-server.ts (class EnhancedStdioMCPServer): the        *)
(* readline 'line' handler, handleRequest, handleToolCall, the tool        *)
(* handlers, the conversation store and sendResponse.                      *)
(*                                                                         *)
(* Node runs the server on one thread.  A 'line' event runs the handler    *)
(* synchronously up to its first await on a pending promise; several       *)
(* lines of one input chunk are emitted back to back before any microtask  *)
(* runs; microtasks run FIFO and drain before the next I/O callback (a     *)
(* new chunk or a provider completion).                                    *)
(***************************************************************************)
EXTENDS Integers, Sequences, FiniteSets, TLC

\* ---------------------------------------------------------------- bounds
MaxLines == 3
MaxToolLines == 2
MaxConvLines == 3
MaxArgLines == 2
MaxStoreLines == 3
MaxCapLines == 3
MaxResLines == 2
MaxEnvLines == 2
MaxJsonLines == 2
MaxConfigLines == 2
MaxListLines == 2
MaxInitLines == 3
MaxPendLines == 3
MaxOrderLines == 3
MaxSchemaLines == 2

\* ---------------------------------------------------------- JS values
Undefined == "undefined"

\* JavaScript truthiness of the (string or absent) values the model uses.
Truthy(v) == v \notin {Undefined, ""}

\* a || b
OrElse(a, b) == IF Truthy(a) THEN a ELSE b

\* A numeric argument: absent, or a number.  Temperature and topP are counted
\* in hundredths (1.0 is 100, 0.95 is 95).
Absent == [given |-> FALSE, value |-> 0]

Num(v) == [given |-> TRUE, value |-> v]

\* a ?? d
NullishOr(a, d) == IF a.given THEN a.value ELSE d

\* a || d : 0 is falsy
FalsyOr(a, d) == IF a.given /\ a.value # 0 THEN a.value ELSE d

\* ------------------------------------------------------- model registry
ModelNames ==
  << "gemini-3-pro-preview", "gemini-3-flash-preview", "gemini-2.5-pro",
     "gemini-2.5-flash", "gemini-2.5-flash-lite" >>

FullFeatures ==
  {"thinking", "function_calling", "json_mode", "grounding", "system_instructions"}

GEMINI_MODELS ==
  [m \in {ModelNames[i] : i \in 1..Len(ModelNames)} |->
     [features |-> IF m = "gemini-2.5-flash-lite"
                     THEN FullFeatures \ {"grounding"} ELSE FullFeatures,
      thinking |-> TRUE,
      hasThinkingLevels |-> m \in {"gemini-3-pro-preview", "gemini-3-flash-preview"}]]

\* GEMINI_MODELS is an object literal: besides its own keys it has the
\* properties it inherits from Object.prototype, all of them truthy.
ObjectPrototypeKeys ==
  {"constructor", "toString", "toLocaleString", "valueOf", "hasOwnProperty",
   "isPrototypeOf", "propertyIsEnumerable", "__proto__"}

\* key in GEMINI_MODELS, and likewise the truthiness of GEMINI_MODELS[key]
InModels(key) == key \in (DOMAIN GEMINI_MODELS) \cup ObjectPrototypeKeys

\* The module-level constant DEFAULT_MODEL, computed once from the
\* environment variable GEMINI_DEFAULT_MODEL.
DefaultModelOf(envModel) ==
  IF Truthy(envModel) /\ InModels(envModel)
    THEN envModel ELSE "gemini-3-pro-preview"

DefaultModelWarns(envModel) ==
  Truthy(envModel) /\ ~InModels(envModel)

\* ------------------------------------------------------ protocol names
RouterMethods ==
  {"initialize", "tools/list", "tools/call", "resources/list",
   "resources/read", "prompts/list", "ping"}

\* The case labels of handleToolCall's switch.
RegisteredTools ==
  {"generate_text", "analyze_image", "count_tokens", "list_models",
   "embed_text", "get_help"}

\* The case labels of handleResourceRead's switch, in order.
ResourceUris ==
  << "gemini://models", "gemini://capabilities", "gemini://help/usage",
     "gemini://help/parameters", "gemini://help/examples" >>

\* ------------------------------------------------------ capability lists
\* A tool descriptor keeps the name, the schema's required list and the
\* enum and default of its model property (enum << >> and default Undefined
\* when the schema has no model property).
Tool(name, required, modelEnum, modelDefault) ==
  [name |-> name, required |-> required, modelEnum |-> modelEnum,
   modelDefault |-> modelDefault]

getAvailableTools(defaultModel) ==
  << Tool("generate_text", {"prompt"}, ModelNames, defaultModel),
     Tool("analyze_image", {"prompt"},
          << "gemini-3-pro-preview", "gemini-3-flash-preview", "gemini-2.5-pro",
             "gemini-2.5-flash" >>, defaultModel),
     Tool("count_tokens", {"text"}, ModelNames, defaultModel),
     Tool("list_models", {}, << >>, Undefined),
     Tool("embed_text", {"text"}, << "gemini-embedding-001" >>, "gemini-embedding-001"),
     Tool("get_help", {}, << >>, Undefined) >>

getAvailableResources ==
  << [uri |-> "gemini://models", mimeType |-> "application/json"],
     [uri |-> "gemini://capabilities", mimeType |-> "text/markdown"],
     [uri |-> "gemini://help/usage", mimeType |-> "text/markdown"],
     [uri |-> "gemini://help/parameters", mimeType |-> "text/markdown"],
     [uri |-> "gemini://help/examples", mimeType |-> "text/markdown"] >>

getAvailablePrompts ==
  << "code_review", "explain_with_thinking", "creative_writing" >>

\* ------------------------------------------------------- input lines
\* A line is described by the JSON value its text denotes.  kind:
\*   "empty", "spaces" : nothing but whitespace
\*   "text"            : not valid JSON
\*   "null", "number", "array" : valid JSON that is not a request object
\*   "object"          : a JSON object, with the members below
NoArgs ==
  [present |-> FALSE, prompt |-> Undefined, conversationId |-> Undefined,
   model |-> Undefined, text |-> Undefined, imageUrl |-> Undefined,
   imageBase64 |-> Undefined, filter |-> Undefined, topic |-> Undefined,
   temperature |-> Absent, maxTokens |-> Absent, topK |-> Absent, topP |-> Absent,
   thinkingLevel |-> Undefined]

Args == [NoArgs EXCEPT !.present = TRUE]

RawLine(kind) ==
  [kind |-> kind, id |-> Undefined, method |-> Undefined, hasParams |-> FALSE,
   name |-> Undefined, uri |-> Undefined, args |-> NoArgs]

Request(id, method) == [RawLine("object") EXCEPT !.id = id, !.method = method]

ToolCall(id, name, args) ==
  [Request(id, "tools/call") EXCEPT !.hasParams = TRUE, !.name = name, !.args = args]

ResourceRead(id, uri) ==
  [Request(id, "resources/read") EXCEPT !.hasParams = TRUE, !.uri = uri]

GenerateText(id, prompt, conv) ==
  ToolCall(id, "generate_text",
           [Args EXCEPT !.prompt = prompt, !.conversationId = conv])

\* ------------------------------------------------------------- turns
UserTurn(text) == [role |-> "user", text |-> text]
ModelTurn(text) == [role |-> "model", text |-> text]

\* --------------------------------------------------------- responses
\* result.metadata, as a function from its member names to their values;
\* a result without metadata has none.
NoMetadata == [k \in {} |-> Undefined]

ResultResponse(id, text, isError, model) ==
  [jsonrpc |-> "2.0", id |-> id, kind |-> "result", code |-> 0,
   text |-> text, isError |-> isError, model |-> model, metadata |-> NoMetadata]

WithMetadata(response, metadata) == [response EXCEPT !.metadata = metadata]

ErrorResponse(id, code, message) ==
  [jsonrpc |-> "2.0", id |-> id, kind |-> "error", code |-> code,
   text |-> message, isError |-> FALSE, model |-> Undefined, metadata |-> NoMetadata]

\* Mutant of MethodNotFound: the error is built without the request's id.
MethodNotFoundNoId(id) == ErrorResponse(Undefined, -32601, <<"Method not found">>)

\* handleRequest's default case with an id present.
MethodNotFound(id) == ErrorResponse(id, -32601, <<"Method not found">>)

\* handleRequest's catch block.
InternalError(id, message) == ErrorResponse(id, -32603, message)

\* Mutant of UnknownTool: the unknown name is thrown and reaches the router's
\* catch block.
UnknownToolThrown(id, name) == ErrorResponse(id, -32603, <<"Unknown tool: ", name>>)

\* handleToolCall's default case.
UnknownTool(id, name) == ErrorResponse(id, -32602, <<"Unknown tool: ", name>>)

\* JSON.stringify leaves out every member whose value is undefined.
DropUndefined(object) ==
  [k \in {x \in DOMAIN object : object[x] # Undefined} |-> object[k]]

\* Mutant of JSONStringify: the member that is not set is written too.
JSONStringifyBothMembers(response) ==
  [members |-> {"jsonrpc", "result", "error"}
                 \cup (IF response.id = Undefined THEN {} ELSE {"id"}),
   jsonrpc |-> response.jsonrpc, id |-> response.id, kind |-> response.kind,
   code |-> response.code, text |-> response.text,
   isError |-> response.isError, model |-> response.model,
   metadata |-> DropUndefined(response.metadata)]

\* JSON.stringify of a response: a member whose value is undefined is left
\* out of the encoded object.
JSONStringify(response) ==
  [members |-> {"jsonrpc", response.kind}
                 \cup (IF response.id = Undefined THEN {} ELSE {"id"}),
   jsonrpc |-> response.jsonrpc, id |-> response.id, kind |-> response.kind,
   code |-> response.code, text |-> response.text,
   isError |-> response.isError, model |-> response.model,
   metadata |-> DropUndefined(response.metadata)]

\* ------------------------------------------------- conversation store
\* this.conversations.get(k) || []
MapGetOrEmpty(m, k) == IF k \in DOMAIN m THEN m[k] ELSE << >>

\* Mutant of MapSet: the map is replaced by one that holds only the new key.
MapSetResets(m, k, v) == [x \in {k} |-> v]

\* this.conversations.set(k, v)
MapSet(m, k, v) == [x \in (DOMAIN m) \cup {k} |-> IF x = k THEN v ELSE m[x]]

\* ------------------------------------------------------ tool handlers
\* The synchronous part of a handler either returns a response or stops
\* at its await of a provider call.
NoConfig ==
  [temperature |-> Absent, maxOutputTokens |-> Absent, topK |-> Absent,
   topP |-> Absent, thinkingConfig |-> Undefined]

NoCall ==
  [op |-> "none", model |-> Undefined, contents |-> << >>, image |-> Undefined,
   config |-> NoConfig]

\* String.prototype.toUpperCase on the thinking levels
ToUpperCase(level) ==
  CASE level = "minimal" -> "MINIMAL"
    [] level = "low" -> "LOW"
    [] level = "medium" -> "MEDIUM"
    [] level = "high" -> "HIGH"
    [] OTHER -> level

\* modelInfo.thinking (undefined for an inherited property)
ModelThinking(model) ==
  model \in DOMAIN GEMINI_MODELS /\ GEMINI_MODELS[model].thinking

\* The config generateText passes to generateContent.
generateTextConfig(args, model) ==
  [temperature |-> Num(NullishOr(args.temperature, 100)),
   maxOutputTokens |-> Num(FalsyOr(args.maxTokens, 2048)),
   topK |-> Num(FalsyOr(args.topK, 40)),
   topP |-> Num(FalsyOr(args.topP, 95)),
   thinkingConfig |-> IF Truthy(args.thinkingLevel) /\ ModelThinking(model)
                        THEN ToUpperCase(args.thinkingLevel) ELSE Undefined]


NoResponse == ErrorResponse(Undefined, 0, << >>)

Returned(response, log) ==
  [await |-> FALSE, response |-> response, call |-> NoCall, log |-> log]

Awaiting(call) ==
  [await |-> TRUE, response |-> NoResponse, call |-> call, log |-> << >>]

\* Mutant of generateTextStart: the history is put after the new user turn.
generateTextStartHistoryLast(id, args, convs, defaultModel) ==
  IF ~args.present
    THEN Returned(ResultResponse(id, <<"Error: ", "TypeError">>, TRUE, Undefined),
                  <<"Error in generateText">>)
    ELSE
      LET model == OrElse(args.model, defaultModel)
          own == << UserTurn(args.prompt) >>
          history == MapGetOrEmpty(convs, args.conversationId)
          contents == IF Truthy(args.conversationId) /\ Len(history) > 0
                        THEN own \o history ELSE own
      IN IF ~InModels(model)
           THEN Returned(ResultResponse(id, <<"Error: ", "Unknown model: ", model>>,
                                        TRUE, Undefined),
                         <<"Error in generateText">>)
           ELSE Awaiting([op |-> "generateContent", model |-> model,
                          contents |-> contents, image |-> Undefined,
                          config |-> generateTextConfig(args, model)])

\* generateText, up to the await of generateContent.
generateTextStart(id, args, convs, defaultModel) ==
  IF ~args.present
    THEN Returned(ResultResponse(id, <<"Error: ", "TypeError">>, TRUE, Undefined),
                  <<"Error in generateText">>)
    ELSE
      LET model == OrElse(args.model, defaultModel)
          own == << UserTurn(args.prompt) >>
          history == MapGetOrEmpty(convs, args.conversationId)
          contents == IF Truthy(args.conversationId) /\ Len(history) > 0
                        THEN history \o own ELSE own
      IN IF ~InModels(model)
           THEN Returned(ResultResponse(id, <<"Error: ", "Unknown model: ", model>>,
                                        TRUE, Undefined),
                         <<"Error in generateText">>)
           ELSE Awaiting([op |-> "generateContent", model |-> model,
                          contents |-> contents, image |-> Undefined,
                          config |-> generateTextConfig(args, model)])

\* Mutant of generateTextStore: the model turn is pushed before the user turn.
generateTextStoreModelFirst(args, text, convs) ==
  IF Truthy(args.conversationId)
    THEN MapSet(convs, args.conversationId,
                MapGetOrEmpty(convs, args.conversationId)
                  \o << ModelTurn(text), UserTurn(args.prompt) >>)
    ELSE convs

\* Mutant of generateTextStore: the two new turns replace the stored history.
generateTextStoreOverwrites(args, text, convs) ==
  IF Truthy(args.conversationId)
    THEN MapSet(convs, args.conversationId,
                << UserTurn(args.prompt), ModelTurn(text) >>)
    ELSE convs

\* The conversation store after generateText's provider call succeeded.
generateTextStore(args, text, convs) ==
  IF Truthy(args.conversationId)
    THEN MapSet(convs, args.conversationId,
                MapGetOrEmpty(convs, args.conversationId)
                  \o << UserTurn(args.prompt), ModelTurn(text) >>)
    ELSE convs

\* Mutant of generateTextFinish: the provider's error is thrown on and
\* reaches the router's catch block.
generateTextFinishRethrows(id, args, model, ok, reply, usage) ==
  IF ok
    THEN Returned(WithMetadata(ResultResponse(id, << OrElse(reply, "") >>, FALSE, model),
                               [model |-> model,
                                tokensUsed |-> usage.totalTokenCount,
                                candidatesCount |-> "1",
                                finishReason |-> usage.finishReason]),
                  << >>)
    ELSE Returned(ErrorResponse(id, -32603, <<"provider failure">>),
                  <<"Error in generateText">>)

\* Mutant of StoreAfter: the turns are recorded whether or not the provider
\* call succeeded.
StoreAfterAnyOutcome(tool, ok, args, text, convs) ==
  IF tool = "generate_text" THEN generateTextStore(args, text, convs) ELSE convs

\* The conversation store after a handler resumed from its provider call:
\* only generateText's success path writes it.
StoreAfter(tool, ok, args, text, convs) ==
  IF ok /\ tool = "generate_text" THEN generateTextStore(args, text, convs) ELSE convs

\* generateText, after the await.
generateTextFinish(id, args, model, ok, reply, usage) ==
  IF ok
    THEN Returned(WithMetadata(ResultResponse(id, << OrElse(reply, "") >>, FALSE, model),
                               [model |-> model,
                                tokensUsed |-> usage.totalTokenCount,
                                candidatesCount |-> "1",
                                finishReason |-> usage.finishReason]),
                  << >>)
    ELSE Returned(ResultResponse(id, <<"Error: ", "provider failure">>, TRUE, Undefined),
                  <<"Error in generateText">>)

\* analyzeImage, up to the await of generateContent.
analyzeImageStart(id, args, defaultModel) ==
  IF ~args.present
    THEN Returned(ResultResponse(id, <<"Image analysis failed: ", "TypeError">>,
                                 TRUE, Undefined),
                  <<"Error in analyzeImage">>)
    ELSE IF ~Truthy(args.imageUrl) /\ ~Truthy(args.imageBase64)
      THEN Returned(ResultResponse(id,
                      <<"Image analysis failed: ",
                        "Either imageUrl or imageBase64 must be provided">>,
                      TRUE, Undefined),
                    <<"Error in analyzeImage">>)
      ELSE Awaiting([op |-> "generateContent",
                     model |-> OrElse(args.model, defaultModel),
                     contents |-> << UserTurn(args.prompt) >>,
                     image |-> IF Truthy(args.imageUrl) THEN "url" ELSE "inlineData",
                     config |-> NoConfig])

analyzeImageFinish(id, ok, reply) ==
  IF ok
    THEN Returned(ResultResponse(id, << OrElse(reply, "") >>, FALSE, Undefined), << >>)
    ELSE Returned(ResultResponse(id, <<"Image analysis failed: ", "provider failure">>,
                                 TRUE, Undefined),
                  <<"Error in analyzeImage">>)

\* countTokens, up to the await of countTokens.
countTokensStart(id, args, defaultModel) ==
  IF ~args.present
    THEN Returned(ResultResponse(id, <<"Token counting failed: ", "TypeError">>,
                                 TRUE, Undefined),
                  <<"Error in countTokens">>)
    ELSE Awaiting([op |-> "countTokens", model |-> OrElse(args.model, defaultModel),
                   contents |-> << UserTurn(args.text) >>, image |-> Undefined,
                   config |-> NoConfig])

countTokensFinish(id, model, ok, reply) ==
  IF ok
    THEN Returned(WithMetadata(ResultResponse(id, <<"Token count: ", reply>>, FALSE, model),
                               [tokenCount |-> reply, model |-> model]),
                  << >>)
    ELSE Returned(ResultResponse(id, <<"Token counting failed: ", "provider failure">>,
                                 TRUE, Undefined),
                  <<"Error in countTokens">>)

\* embedText, up to the await of embedContent.
embedTextStart(id, args) ==
  IF ~args.present
    THEN Returned(ResultResponse(id, <<"Embedding failed: ", "TypeError">>,
                                 TRUE, Undefined),
                  <<"Error in embedText">>)
    ELSE Awaiting([op |-> "embedContent",
                   model |-> OrElse(args.model, "gemini-embedding-001"),
                   contents |-> << UserTurn(args.text) >>, image |-> Undefined,
                   config |-> NoConfig])

embedTextFinish(id, model, ok, reply) ==
  IF ok
    THEN Returned(WithMetadata(ResultResponse(id, <<"embedding: ", reply>>, FALSE, model),
                               [model |-> model, dimensions |-> "n"]),
                  << >>)
    ELSE Returned(ResultResponse(id, <<"Embedding failed: ", "provider failure">>,
                                 TRUE, Undefined),
                  <<"Error in embedText">>)

\* Mutant of ModelPasses: the grounding case tests the feature of the case
\* above it.
ModelPassesGroundingAsVision(filter, name) ==
  CASE filter = "thinking" -> GEMINI_MODELS[name].thinking
    [] filter = "vision" -> "function_calling" \in GEMINI_MODELS[name].features
    [] filter = "grounding" -> "function_calling" \in GEMINI_MODELS[name].features
    [] filter = "json_mode" -> "json_mode" \in GEMINI_MODELS[name].features
    [] OTHER -> TRUE

\* listModels: the registry models that pass the filter, in registry order.
ModelPasses(filter, name) ==
  CASE filter = "thinking" -> GEMINI_MODELS[name].thinking
    [] filter = "vision" -> "function_calling" \in GEMINI_MODELS[name].features
    [] filter = "grounding" -> "grounding" \in GEMINI_MODELS[name].features
    [] filter = "json_mode" -> "json_mode" \in GEMINI_MODELS[name].features
    [] OTHER -> TRUE

listModels(id, args) ==
  LET filter == OrElse(args.filter, "all")
      modelList == SelectSeq(ModelNames, LAMBDA m : ModelPasses(filter, m))
  IN WithMetadata(ResultResponse(id, modelList, FALSE, Undefined),
                  [count |-> ToString(Len(modelList)), filter |-> filter])

HelpTopics == {"overview", "tools", "models", "parameters", "examples", "quick-start"}

getHelp(id, args) ==
  LET topic == OrElse(args.topic, "overview")
  IN ResultResponse(id,
       IF topic \in HelpTopics THEN <<"help: ", topic>> ELSE <<"Unknown help topic">>,
       FALSE, Undefined)

\* Mutant of handleToolCall: the list_models case awaits its handler as the
\* cases of the async handlers do, which costs one more microtask hop.
handleToolCallAwaitsListModels(request, convs, defaultModel) ==
  LET name == IF request.hasParams THEN request.name ELSE Undefined
      args == IF request.hasParams THEN request.args ELSE NoArgs
      id == request.id
  IN CASE name = "generate_text" ->
            [r |-> generateTextStart(id, args, convs, defaultModel), ticks |-> 2]
       [] name = "analyze_image" ->
            [r |-> analyzeImageStart(id, args, defaultModel), ticks |-> 2]
       [] name = "count_tokens" ->
            [r |-> countTokensStart(id, args, defaultModel), ticks |-> 2]
       [] name = "list_models" ->
            [r |-> Returned(listModels(id, args), << >>), ticks |-> 2]
       [] name = "embed_text" ->
            [r |-> embedTextStart(id, args), ticks |-> 2]
       [] name = "get_help" ->
            [r |-> Returned(getHelp(id, args), << >>), ticks |-> 1]
       [] OTHER ->
            [r |-> Returned(UnknownTool(id, name), << >>), ticks |-> 1]

\* Mutant of handleToolCall: the switch has no case for embed_text.
handleToolCallWithoutEmbed(request, convs, defaultModel) ==
  LET name == IF request.hasParams THEN request.name ELSE Undefined
      args == IF request.hasParams THEN request.args ELSE NoArgs
      id == request.id
  IN CASE name = "generate_text" ->
            [r |-> generateTextStart(id, args, convs, defaultModel), ticks |-> 2]
       [] name = "analyze_image" ->
            [r |-> analyzeImageStart(id, args, defaultModel), ticks |-> 2]
       [] name = "count_tokens" ->
            [r |-> countTokensStart(id, args, defaultModel), ticks |-> 2]
       [] name = "list_models" ->
            [r |-> Returned(listModels(id, args), << >>), ticks |-> 1]
       [] name = "get_help" ->
            [r |-> Returned(getHelp(id, args), << >>), ticks |-> 1]
       [] OTHER ->
            [r |-> Returned(UnknownTool(id, name), << >>), ticks |-> 1]

\* handleToolCall, up to the first await of a pending promise.  ticks is the
\* number of microtask hops between now and handleRequest's sendResponse
\* when the response is already known.
handleToolCall(request, convs, defaultModel) ==
  LET name == IF request.hasParams THEN request.name ELSE Undefined
      args == IF request.hasParams THEN request.args ELSE NoArgs
      id == request.id
  IN CASE name = "generate_text" ->
            [r |-> generateTextStart(id, args, convs, defaultModel), ticks |-> 2]
       [] name = "analyze_image" ->
            [r |-> analyzeImageStart(id, args, defaultModel), ticks |-> 2]
       [] name = "count_tokens" ->
            [r |-> countTokensStart(id, args, defaultModel), ticks |-> 2]
       [] name = "list_models" ->
            [r |-> Returned(listModels(id, args), << >>), ticks |-> 1]
       [] name = "embed_text" ->
            [r |-> embedTextStart(id, args), ticks |-> 2]
       [] name = "get_help" ->
            [r |-> Returned(getHelp(id, args), << >>), ticks |-> 1]
       [] OTHER ->
            [r |-> Returned(UnknownTool(id, name), << >>), ticks |-> 1]

\* Mutant of ResourceMime: the help/examples case does not assign mimeType.
ResourceMimeKeepsInitial(uri) ==
  CASE uri = "gemini://models" -> "application/json"
    [] uri = "gemini://capabilities" -> "text/markdown"
    [] uri = "gemini://help/usage" -> "text/markdown"
    [] uri = "gemini://help/parameters" -> "text/markdown"
    [] OTHER -> "text/plain"

\* The mimeType handleResourceRead's switch leaves for a uri ('text/plain' is
\* the initial value of the local).
ResourceMime(uri) ==
  CASE uri = "gemini://models" -> "application/json"
    [] uri = "gemini://capabilities" -> "text/markdown"
    [] uri = "gemini://help/usage" -> "text/markdown"
    [] uri = "gemini://help/parameters" -> "text/markdown"
    [] uri = "gemini://help/examples" -> "text/markdown"
    [] OTHER -> "text/plain"

\* The result's contents array has one entry.
handleResourceRead(request) ==
  LET uri == IF request.hasParams THEN request.uri ELSE Undefined
  IN IF ~Truthy(uri)
       THEN ErrorResponse(request.id, -32602, <<"Missing required parameter: uri">>)
       ELSE IF uri \in {ResourceUris[i] : i \in 1..Len(ResourceUris)}
         THEN ResultResponse(request.id,
                             << [uri |-> uri, mimeType |-> ResourceMime(uri)] >>,
                             FALSE, Undefined)
         ELSE ErrorResponse(request.id, -32602, <<"Unknown resource: ", uri>>)

\* ------------------------------------------------------------- state
VARIABLES
  alive,          \* the process is running
  envModel,       \* process.env.GEMINI_DEFAULT_MODEL
  DEFAULT_MODEL,  \* module constant computed at start-up
  conversations,  \* Map<string, turn[]>
  received,       \* the lines read so far, in order
  stdout,         \* what was written to process.stdout, in order
  stderr,         \* what was written to process.stderr, in order
  calls,          \* the provider calls made so far and their state
  microq,         \* the microtask queue: continuations of awaits
  inChunk,        \* 'line' events of the current input chunk are being emitted
  rejection       \* an async function's promise was rejected and nobody handles it

vars == << alive, envModel, DEFAULT_MODEL, conversations, received, stdout, stderr,
           calls, microq, inChunk, rejection >>

\* -------------------------------------------------------- the router
NoEffect ==
  [send |-> << >>, micro |-> << >>, call |-> << >>, log |-> << >>, reject |-> FALSE]

\* handleRequest for the decoded value of line number n, up to its first
\* await of a pending promise:
\*   send   responses passed to sendResponse before it returns to the caller
\*   micro  responses it will send after the given number of microtask hops
\*   call   the provider call it stopped at (seen is filled in by the caller:
\*          the calls that had succeeded when this one was made)
\*   log    what it printed with console.error
\*   reject its promise was rejected (an exception left the function)
handleRequest(n, request, convs, defaultModel) ==
  LET method == IF request.kind = "object" THEN request.method ELSE Undefined
      id == IF request.kind = "object" THEN request.id ELSE Undefined
      entry == <<"Handling request">>
      Simple(text) ==
        [NoEffect EXCEPT !.send = << ResultResponse(id, text, FALSE, Undefined) >>,
                         !.log = entry]
  IN IF request.kind = "null"
       THEN [NoEffect EXCEPT !.reject = TRUE]
     ELSE CASE method = "initialize" -> 
            Simple(<< [protocolVersion |-> "2024-11-05",
                    serverInfo |-> [name |-> "mcp-server-gemini-enhanced",
                                    version |-> "0.5.1"],
                    capabilities |-> {"tools", "resources", "prompts"}] >>)
       [] method = "tools/list" -> Simple(getAvailableTools(defaultModel))
       [] method = "resources/list" -> Simple(getAvailableResources)
       [] method = "prompts/list" -> Simple(getAvailablePrompts)
       [] method = "ping" -> Simple(<< >>)
       [] method = "tools/call" ->
            LET t == handleToolCall(request, convs, defaultModel)
            IN IF t.r.await
                 THEN [NoEffect EXCEPT
                         !.call = << [req |-> n, tool |-> request.name,
                                      op |-> t.r.call.op, model |-> t.r.call.model,
                                      contents |-> t.r.call.contents,
                                      image |-> t.r.call.image,
                                      config |-> t.r.call.config,
                                      state |-> "pending", reply |-> Undefined,
                                      seen |-> {}] >>,
                         !.log = entry]
                 ELSE [NoEffect EXCEPT
                         !.micro = << [req |-> n, response |-> t.r.response,
                                       ticks |-> t.ticks] >>,
                         !.log = entry \o t.r.log]
       [] method = "resources/read" ->
            [NoEffect EXCEPT
               !.micro = << [req |-> n, response |-> handleResourceRead(request),
                             ticks |-> 1] >>,
               !.log = entry]
       [] OTHER ->
            IF request.kind = "number"
              THEN \* 'id' in request throws a TypeError for a primitive
                   [NoEffect EXCEPT
                      !.send = << InternalError(Undefined, <<"TypeError">>) >>,
                      !.log = entry]
            ELSE IF id = Undefined
              THEN [NoEffect EXCEPT !.log = entry \o <<"Notification received">>]
              ELSE [NoEffect EXCEPT
                      !.send = << MethodNotFound(id) >>,
                      !.log = entry]

\* line.trim() is the empty string
IsBlank(line) == line.kind \in {"empty", "spaces"}

\* JSON.parse(line) throws
ParseFails(line) == line.kind = "text"

\* Mutant of LineHandler: the line is parsed without the line.trim() test.
LineHandlerWithoutTrim(n, line, convs, defaultModel) ==
  IF IsBlank(line) \/ ParseFails(line)
    THEN [NoEffect EXCEPT !.log = <<"Failed to parse message">>]
    ELSE handleRequest(n, line, convs, defaultModel)

\* The body of rl.on('line', ...).
LineHandler(n, line, convs, defaultModel) ==
  IF IsBlank(line) THEN NoEffect
  ELSE IF ParseFails(line)
    THEN [NoEffect EXCEPT !.log = <<"Failed to parse message">>]
    ELSE handleRequest(n, line, convs, defaultModel)

\* Mutant of Written: the line break is forgotten.
WrittenWithoutNewline(req, response) ==
  [writer |-> "sendResponse", req |-> req, response |-> response,
   json |-> JSONStringify(response),
   newlines |-> 0]

\* sendResponse: one write of the encoded response and a line break.
\* req is the number of the line that caused the response.
Written(req, response) ==
  [writer |-> "sendResponse", req |-> req, response |-> response,
   json |-> JSONStringify(response),
   newlines |-> 1]

sendResponse(out, req, response) == Append(out, Written(req, response))

RECURSIVE SendAll(_, _, _)
SendAll(out, req, responses) ==
  IF responses = << >> THEN out
  ELSE SendAll(sendResponse(out, req, Head(responses)), req, Tail(responses))

\* console.error / process.stderr.write
Logged(entries) == [i \in 1..Len(entries) |-> [writer |-> "console.error", what |-> entries[i]]]

\* The provider calls that have returned successfully.
Succeeded(cs) == {k \in DOMAIN cs : cs[k].state = "ok"}

\* ------------------------------------------------------------ actions
\* The values GEMINI_DEFAULT_MODEL is started with: unset, a registry key,
\* a name the registry does not have.
EnvModels == {Undefined, "gemini-2.5-flash", "gemini-1.0-bogus", "toString"}

\* The state once the module is loaded and the server constructed.
Start(env) ==
  /\ alive = TRUE
  /\ envModel = env
  /\ DEFAULT_MODEL = DefaultModelOf(env)
  /\ conversations = [k \in {} |-> << >>]
  /\ received = << >>
  /\ stdout = << >>
  /\ stderr = IF DefaultModelWarns(env)
               THEN << [writer |-> "process.stderr.write",
                        what |-> "[warn] GEMINI_DEFAULT_MODEL is not a known model"] >>
               ELSE << >>
  /\ calls = << >>
  /\ microq = << >>
  /\ inChunk = FALSE
  /\ rejection = FALSE

Init == \E env \in EnvModels : Start(env)

\* Start-up without GEMINI_DEFAULT_MODEL.
InitDefault == Start(Undefined)

\* Mutant of ReceiveLine: a tool call that names a registered model makes it
\* the default from then on.
ReceiveLineSetsDefault(line) ==
  /\ alive
  /\ inChunk \/ (microq = << >> /\ ~rejection)
  /\ LET n == Len(received) + 1
         e == LineHandler(n, line, conversations, DEFAULT_MODEL)
     IN /\ received' = Append(received, line)
        /\ stdout' = SendAll(stdout, n, e.send)
        /\ stderr' = stderr \o Logged(e.log)
        /\ calls' = calls \o [k \in 1..Len(e.call) |->
                              [e.call[k] EXCEPT !.seen = Succeeded(calls)]]
        /\ microq' = microq \o e.micro
        /\ rejection' = (rejection \/ e.reject)
        /\ inChunk' = (microq' # << >> \/ rejection')
  /\ DEFAULT_MODEL' = IF line.kind = "object" /\ line.args.model \in DOMAIN GEMINI_MODELS
                        THEN line.args.model ELSE DEFAULT_MODEL
  /\ UNCHANGED << alive, envModel, conversations >>

\* Mutant of ReceiveLine: until an initialize request has been read, every
\* other line is answered with a 'Server not initialized' error.
ReceiveLineAfterInitialize(line) ==
  /\ alive
  /\ inChunk \/ (microq = << >> /\ ~rejection)
  /\ LET n == Len(received) + 1
         initialized ==
           \/ line.kind = "object" /\ line.method = "initialize"
           \/ \E m \in DOMAIN received :
                received[m].kind = "object" /\ received[m].method = "initialize"
         e == IF initialized
                THEN LineHandler(n, line, conversations, DEFAULT_MODEL)
                ELSE [NoEffect EXCEPT
                        !.send = << ErrorResponse(line.id, -32002,
                                                  <<"Server not initialized">>) >>]
     IN /\ received' = Append(received, line)
        /\ stdout' = SendAll(stdout, n, e.send)
        /\ stderr' = stderr \o Logged(e.log)
        /\ calls' = calls \o [k \in 1..Len(e.call) |->
                              [e.call[k] EXCEPT !.seen = Succeeded(calls)]]
        /\ microq' = microq \o e.micro
        /\ rejection' = (rejection \/ e.reject)
        /\ inChunk' = (microq' # << >> \/ rejection')
  /\ UNCHANGED << alive, envModel, DEFAULT_MODEL, conversations >>

\* A 'line' event.  A new chunk is read only when the microtask queue has
\* drained; the lines of one chunk follow each other without a microtask
\* in between.
ReceiveLine(line) ==
  /\ alive
  /\ inChunk \/ (microq = << >> /\ ~rejection)
  /\ LET n == Len(received) + 1
         e == LineHandler(n, line, conversations, DEFAULT_MODEL)
     IN /\ received' = Append(received, line)
        /\ stdout' = SendAll(stdout, n, e.send)
        /\ stderr' = stderr \o Logged(e.log)
        /\ calls' = calls \o [k \in 1..Len(e.call) |->
                              [e.call[k] EXCEPT !.seen = Succeeded(calls)]]
        /\ microq' = microq \o e.micro
        /\ rejection' = (rejection \/ e.reject)
        /\ inChunk' = (microq' # << >> \/ rejection')
  /\ UNCHANGED << alive, envModel, DEFAULT_MODEL, conversations >>

\* Mutant of RunMicrotask: responses are held back so that they leave in the
\* order the requests arrived; a continuation does not run while an earlier
\* request still waits for the provider.
RunMicrotaskInArrivalOrder ==
  /\ alive
  /\ microq # << >>
  /\ \A k \in DOMAIN calls :
       calls[k].state = "pending" => calls[k].req > Head(microq).req
  /\ LET h == Head(microq)
     IN IF h.ticks > 1
          THEN /\ microq' = Append(Tail(microq), [h EXCEPT !.ticks = h.ticks - 1])
               /\ stdout' = stdout
          ELSE /\ microq' = Tail(microq)
               /\ stdout' = sendResponse(stdout, h.req, h.response)
  /\ inChunk' = FALSE
  /\ UNCHANGED << alive, envModel, DEFAULT_MODEL, conversations, received, stderr,
                  calls, rejection >>

\* One microtask: a hop of an await chain, the last of which is
\* handleRequest's continuation calling sendResponse.
RunMicrotask ==
  /\ alive
  /\ microq # << >>
  /\ LET h == Head(microq)
     IN IF h.ticks > 1
          THEN /\ microq' = Append(Tail(microq), [h EXCEPT !.ticks = h.ticks - 1])
               /\ stdout' = stdout
          ELSE /\ microq' = Tail(microq)
               /\ stdout' = sendResponse(stdout, h.req, h.response)
  /\ inChunk' = FALSE
  /\ UNCHANGED << alive, envModel, DEFAULT_MODEL, conversations, received, stderr,
                  calls, rejection >>

\* The provider settles call number i: the handler resumes after its await.
ProviderComplete(i, ok, reply, usage) ==
  /\ alive
  /\ microq = << >> /\ ~rejection
  /\ i \in DOMAIN calls
  /\ calls[i].state = "pending"
  /\ LET c == calls[i]
         request == received[c.req]
         id == request.id
         r == CASE c.tool = "generate_text" ->
                     generateTextFinish(id, request.args, c.model, ok, reply, usage)
                [] c.tool = "analyze_image" -> analyzeImageFinish(id, ok, reply)
                [] c.tool = "count_tokens" -> countTokensFinish(id, c.model, ok, reply)
                [] OTHER -> embedTextFinish(id, c.model, ok, reply)
     IN /\ calls' = [calls EXCEPT ![i].state = IF ok THEN "ok" ELSE "failed",
                                  ![i].reply = IF ok THEN reply ELSE Undefined]
        /\ conversations' =
             StoreAfter(c.tool, ok, request.args, OrElse(reply, ""), conversations)
        /\ stderr' = stderr \o Logged(r.log)
        /\ microq' = << [req |-> c.req, response |-> r.response, ticks |-> 2] >>
  /\ inChunk' = FALSE
  /\ UNCHANGED << alive, envModel, DEFAULT_MODEL, received, stdout, rejection >>

\* Node (>= 15) turns an unhandled promise rejection into an uncaught
\* exception once the microtask queue has drained: the process prints the
\* error and exits.
UnhandledRejection ==
  /\ alive
  /\ rejection
  /\ microq = << >>
  /\ alive' = FALSE
  /\ stderr' = stderr \o Logged(<<"Uncaught TypeError">>)
  /\ inChunk' = FALSE
  /\ UNCHANGED << envModel, DEFAULT_MODEL, conversations, received, stdout, calls,
                  microq, rejection >>

\* --------------------------------------------------- the client's lines
\* The provider is opaque: the text it returns for call number i is named
\* after the call, so that the replies to different calls can be told apart.
ReplyTo(i) == "r" \o ToString(i)

\* What generateContent reports besides the text: usageMetadata
\* .totalTokenCount and candidates[0].finishReason, each of which may be
\* missing from the provider's answer.
UsageReports == [totalTokenCount : {"7", Undefined}, finishReason : {"STOP", Undefined}]

FullUsage == [totalTokenCount |-> "7", finishReason |-> "STOP"]

Replies(i) == {ReplyTo(i)}

RouterLines ==
  { RawLine("empty"), RawLine("spaces"), RawLine("text"), RawLine("null"),
    RawLine("number"),
    RawLine("array"),
    Request("1", "ping"),
    Request("2", "nonexistent/method"),
    Request(Undefined, "notifications/initialized"),
    Request(Undefined, "ping"),
    ToolCall("1", "nonexistent_tool", Args),
    Request("2", "tools/call"),
    ToolCall("1", "count_tokens", [Args EXCEPT !.text = "t"]),
    ToolCall("2", "get_help", Args) }

Next ==
  \/ \E line \in RouterLines : Len(received) < MaxLines /\ ReceiveLine(line)
  \/ RunMicrotask
  \/ \E i \in DOMAIN calls : \E ok \in BOOLEAN, reply \in Replies(i) : ProviderComplete(i, ok, reply, FullUsage)
  \/ UnhandledRejection

Spec == Init /\ [][Next]_vars

\* Node runs every queued microtask and reports an unhandled rejection; the
\* provider is assumed to settle every call.
FairSpec ==
  /\ Spec
  /\ WF_vars(RunMicrotask)
  /\ WF_vars(\E i \in DOMAIN calls : \E ok \in BOOLEAN, reply \in Replies(i) :
               ProviderComplete(i, ok, reply, FullUsage))
  /\ WF_vars(UnhandledRejection)

\* Calls of the tools, registered and not.
ToolLines ==
  { RawLine("null"),
    ToolCall("1", "generate_text", [Args EXCEPT !.prompt = "p1"]),
    ToolCall("2", "generate_text", [Args EXCEPT !.prompt = "p1", !.model = "no-such-model"]),
    ToolCall("1", "generate_text", NoArgs),
    ToolCall("2", "analyze_image", [Args EXCEPT !.prompt = "p1", !.imageUrl = "u"]),
    ToolCall("1", "analyze_image", [Args EXCEPT !.prompt = "p1"]),
    ToolCall("2", "count_tokens", [Args EXCEPT !.text = "t"]),
    ToolCall("1", "list_models", Args),
    ToolCall("2", "embed_text", [Args EXCEPT !.text = "t"]),
    ToolCall("1", "get_help", NoArgs),
    ToolCall("2", "nonexistent_tool", [Args EXCEPT !.conversationId = "c1"]),
    ToolCall("1", Undefined, NoArgs),
    Request("2", "tools/call"),
    Request("1", "tools/list"),
    GenerateText("1", "p1", "c1") }

NextTools ==
  \/ \E line \in ToolLines : Len(received) < MaxToolLines /\ ReceiveLine(line)
  \/ RunMicrotask
  \/ \E i \in DOMAIN calls : \E ok \in BOOLEAN, reply \in Replies(i) : ProviderComplete(i, ok, reply, FullUsage)
  \/ UnhandledRejection

SpecTools == InitDefault /\ [][NextTools]_vars

\* generate_text calls on conversations.
ConvLines ==
  { GenerateText("1", "p1", "c1"),
    GenerateText("2", "p2", "c1"),
    GenerateText("3", "p3", "c2"),
    GenerateText("4", "p1", ""),
    GenerateText("5", "p2", Undefined) }

NextConv ==
  \/ \E line \in ConvLines : Len(received) < MaxConvLines /\ ReceiveLine(line)
  \/ RunMicrotask
  \/ \E i \in DOMAIN calls : \E ok \in BOOLEAN, reply \in Replies(i) : ProviderComplete(i, ok, reply, FullUsage)

SpecConv == InitDefault /\ [][NextConv]_vars

\* ------------------------------------------------------------ claims
\* A well-formed request that carries an id.
IsRequestWithId(line) == line.kind = "object" /\ line.id # Undefined

\* The positions in stdout of the lines written for line number n.
ResponsesTo(n) == {i \in DOMAIN stdout : stdout[i].req = n}

\* C1: every well-formed request that carries an id is eventually answered
\* by exactly one stdout line carrying that id, and never by more than one.
C1_ExactlyOneResponse ==
  /\ [](\A n \in DOMAIN received :
         IsRequestWithId(received[n]) => Cardinality(ResponsesTo(n)) <= 1)
  /\ \A n \in 1..MaxLines :
       (n \in DOMAIN received /\ IsRequestWithId(received[n]))
         ~> (Cardinality({i \in ResponsesTo(n) :
                            stdout[i].json.id = received[n].id}) = 1)

\* The number of entries of a log that say a given thing.
CountLog(log, what) == Cardinality({i \in DOMAIN log : log[i].what = what})

CountLines(P(_)) == Cardinality({n \in DOMAIN received : P(received[n])})

\* C2: stdout holds nothing but response lines, each one encoded JSON-RPC
\* object written by sendResponse and ended by one line break; the
\* default-model warning and every parse failure, request log and handler
\* error log are on stderr.
C2_StdoutOnlyResponses ==
  /\ \A i \in DOMAIN stdout :
       /\ stdout[i].writer = "sendResponse"
       /\ stdout[i].newlines = 1
       /\ stdout[i].json.jsonrpc = "2.0"
       /\ stdout[i].json.kind \in {"result", "error"}
       /\ {"jsonrpc", stdout[i].json.kind} \subseteq stdout[i].json.members
  /\ \A i \in DOMAIN stderr :
       stderr[i].writer \in {"console.error", "process.stderr.write"}
  /\ CountLog(stderr, "[warn] GEMINI_DEFAULT_MODEL is not a known model")
       = IF DefaultModelWarns(envModel) THEN 1 ELSE 0
  /\ CountLog(stderr, "Failed to parse message") = CountLines(ParseFails)
  /\ CountLog(stderr, "Handling request")
       = CountLines(LAMBDA l : ~IsBlank(l) /\ ~ParseFails(l) /\ l.kind # "null")
  /\ CountLog(stderr, "Error in countTokens")
       = Cardinality({k \in DOMAIN calls : calls[k].tool = "count_tokens"
                                             /\ calls[k].state = "failed"})

\* C2 witness: a response is on stdout while the default-model warning, a
\* parse failure, a request log and a handler error log are on stderr.
C2_Witness ==
  /\ stdout # << >>
  /\ CountLog(stderr, "[warn] GEMINI_DEFAULT_MODEL is not a known model") > 0
  /\ CountLog(stderr, "Failed to parse message") > 0
  /\ CountLog(stderr, "Handling request") > 0
  /\ CountLog(stderr, "Error in countTokens") > 0

\* The decoded values for which handleRequest raises an exception.
Raises(line) == line.kind \in {"null", "number"}

\* C3: no decoded message terminates the server: every exception raised
\* while handling one becomes a -32603 response and no rejection escapes
\* handleRequest.
C3_NoMessageTerminates ==
  /\ alive
  /\ ~rejection
  /\ \A n \in DOMAIN received :
       Raises(received[n]) =>
         \E i \in ResponsesTo(n) : stdout[i].json.kind = "error"
                                     /\ stdout[i].json.code = -32603

\* A line that is not a well-formed request: no JSON, or JSON that is not an
\* object.
Malformed(line) == line.kind \in {"text", "null", "number", "array"}

\* C4: a malformed line puts nothing on stdout and does not stop the server.
C4_MalformedLineSilent ==
  \A n \in DOMAIN received :
    Malformed(received[n]) => (ResponsesTo(n) = {} /\ alive)

\* A tools/call that names a registered tool.
CallsRegisteredTool(line) ==
  /\ line.kind = "object"
  /\ line.method = "tools/call"
  /\ line.hasParams
  /\ line.name \in RegisteredTools

ProviderFailedFor(n) ==
  \E k \in DOMAIN calls : calls[k].req = n /\ calls[k].state = "failed"

\* C5: the response to a tools/call of a registered tool has a result and no
\* error member, whatever the provider did; if the provider call failed the
\* result has isError and a message; -32603 is never produced.
C5_ToolFailureInBand ==
  \A i \in DOMAIN stdout :
    CallsRegisteredTool(received[stdout[i].req]) =>
      /\ stdout[i].json.kind = "result"
      /\ "result" \in stdout[i].json.members
      /\ "error" \notin stdout[i].json.members
      /\ stdout[i].json.code # -32603
      /\ ProviderFailedFor(stdout[i].req) =>
           (stdout[i].json.isError /\ stdout[i].json.text # << >>)

\* C5 witness: generate_text was called, the provider failed and the
\* response has been written.
C5_Witness ==
  \E i \in DOMAIN stdout :
    /\ CallsRegisteredTool(received[stdout[i].req])
    /\ received[stdout[i].req].name = "generate_text"
    /\ ProviderFailedFor(stdout[i].req)

\* A tools/call whose tool name is not registered (or is missing).
CallsUnknownTool(line) ==
  /\ line.kind = "object"
  /\ line.method = "tools/call"
  /\ ~(line.hasParams /\ line.name \in RegisteredTools)

UnknownMethodWithId(line) ==
  IsRequestWithId(line) /\ line.method \notin RouterMethods

\* C7: a request with an id and an unknown method has, from the moment it is
\* read, exactly one response: error -32601 with its id.
C7_MethodNotFound ==
  \A n \in DOMAIN received :
    UnknownMethodWithId(received[n]) =>
      /\ Cardinality(ResponsesTo(n)) = 1
      /\ \A i \in ResponsesTo(n) :
           /\ stdout[i].json.kind = "error"
           /\ stdout[i].json.code = -32601
           /\ stdout[i].json.id = received[n].id
           /\ "id" \in stdout[i].json.members

\* C7 witness: the unknown method arrived while a provider call was pending
\* and after another request was served.
C7_Witness ==
  \E n \in DOMAIN received :
    /\ UnknownMethodWithId(received[n])
    /\ n > 1
    /\ \E k \in DOMAIN calls : calls[k].state = "pending" /\ calls[k].req < n

\* The conversationId of the generate_text call behind provider call k.
ConvOf(k) == received[calls[k].req].args.conversationId

PromptOf(k) == received[calls[k].req].args.prompt

\* The generate_text calls on the conversation of call j that had succeeded
\* when call j was received.
SucceededBefore(j) ==
  {k \in calls[j].seen : calls[k].tool = "generate_text" /\ ConvOf(k) = ConvOf(j)}

\* C8: a generate_text call received after exactly one call on its
\* conversationId has succeeded sends that call's user turn, that call's
\* model turn and its own user turn, in this order; a call without a
\* conversationId (absent or empty), or on a conversationId no call has
\* succeeded on, sends only its own user turn.
C8_SequentialContext ==
  \A j \in DOMAIN calls :
    calls[j].tool = "generate_text" =>
      /\ (~Truthy(ConvOf(j)) \/ SucceededBefore(j) = {}) =>
           calls[j].contents = << UserTurn(PromptOf(j)) >>
      /\ \A k \in SucceededBefore(j) :
           (Truthy(ConvOf(j)) /\ SucceededBefore(j) = {k}) =>
             calls[j].contents =
               << UserTurn(PromptOf(k)), ModelTurn(calls[k].reply),
                  UserTurn(PromptOf(j)) >>

\* C8 witness: a second call on a conversation was sent to the provider
\* after the first had succeeded, and a call on a fresh conversation was
\* sent too.
C8_Witness ==
  /\ \E j \in DOMAIN calls :
       /\ Truthy(ConvOf(j))
       /\ \E k \in DOMAIN calls : SucceededBefore(j) = {k} /\ PromptOf(k) # PromptOf(j)
  /\ \E j \in DOMAIN calls : Truthy(ConvOf(j)) /\ SucceededBefore(j) = {}

\* C9: at most one generate_text call per conversationId is between reading
\* the history and appending its turns.
C9_OneInFlightPerConversation ==
  \A j, k \in DOMAIN calls :
    ( /\ calls[j].tool = "generate_text" /\ calls[k].tool = "generate_text"
      /\ calls[j].state = "pending" /\ calls[k].state = "pending"
      /\ Truthy(ConvOf(j)) /\ ConvOf(j) = ConvOf(k) ) => j = k

\* s has the two turns next to each other, the user turn first.
HasExchange(s, user, model) ==
  \E p \in 1..(Len(s) - 1) : s[p] = user /\ s[p + 1] = model

\* C10: the contents a generate_text call sends hold the user and model turn
\* of every call on the same conversationId that was received before it and
\* succeeds.
C10_HistoryObservesPriorCalls ==
  \A j, k \in DOMAIN calls :
    ( /\ k < j
      /\ calls[j].tool = "generate_text" /\ calls[k].tool = "generate_text"
      /\ Truthy(ConvOf(j)) /\ ConvOf(j) = ConvOf(k)
      /\ calls[k].state = "ok" ) =>
        HasExchange(calls[j].contents, UserTurn(PromptOf(k)), ModelTurn(calls[k].reply))

\* Calls of the tools with missing, unknown or conflicting arguments.
ArgLines ==
  { ToolCall("1", "generate_text", [Args EXCEPT !.prompt = "p1", !.model = "no-such-model"]),
    ToolCall("2", "analyze_image",
             [Args EXCEPT !.prompt = "p1", !.imageUrl = "u", !.model = "no-such-model"]),
    ToolCall("3", "count_tokens", [Args EXCEPT !.text = "t", !.model = "no-such-model"]),
    ToolCall("4", "generate_text", [Args EXCEPT !.conversationId = "c1"]),
    ToolCall("5", "count_tokens", Args),
    ToolCall("6", "embed_text", Args),
    ToolCall("7", "analyze_image", [Args EXCEPT !.imageUrl = "u"]),
    ToolCall("8", "analyze_image", [Args EXCEPT !.prompt = "p1"]),
    ToolCall("9", "analyze_image", [Args EXCEPT !.prompt = "p1", !.imageBase64 = "b"]),
    ToolCall("10", "analyze_image",
             [Args EXCEPT !.prompt = "p1", !.imageUrl = "u", !.imageBase64 = "b"]) }

NextArgs ==
  \/ \E line \in ArgLines : Len(received) < MaxArgLines /\ ReceiveLine(line)
  \/ RunMicrotask
  \/ \E i \in DOMAIN calls : \E ok \in BOOLEAN, reply \in Replies(i) : ProviderComplete(i, ok, reply, FullUsage)

SpecArgs == InitDefault /\ [][NextArgs]_vars

\* A tools/call of the named tool that carries an arguments object.
CallsWithArgs(line, tools) ==
  /\ line.kind = "object"
  /\ line.method = "tools/call"
  /\ line.hasParams
  /\ line.name \in tools
  /\ line.args.present

\* The text is built from the given piece.
Mentions(text, piece) == \E p \in DOMAIN text : text[p] = piece

\* C11: a call of generate_text, analyze_image or count_tokens with a model
\* the registry does not have is answered by a result with isError whose
\* text contains that model identifier.
C11_UnknownModelNamed ==
  \A i \in DOMAIN stdout :
    LET line == received[stdout[i].req]
    IN ( /\ CallsWithArgs(line, {"generate_text", "analyze_image", "count_tokens"})
         /\ Truthy(line.args.model)
         /\ line.args.model \notin DOMAIN GEMINI_MODELS ) =>
           /\ stdout[i].json.kind = "result"
           /\ stdout[i].json.isError
           /\ Mentions(stdout[i].json.text, line.args.model)

\* The field the tool's schema declares required is not supplied.
MissingRequired(line) ==
  \/ CallsWithArgs(line, {"generate_text", "analyze_image"}) /\ line.args.prompt = Undefined
  \/ CallsWithArgs(line, {"count_tokens", "embed_text"}) /\ line.args.text = Undefined

\* C12: a call that omits a required field is answered by an isError
\* result, reaches no provider and leaves the conversation store alone.
C12_RequiredFieldRejected ==
  /\ \A k \in DOMAIN calls : ~MissingRequired(received[calls[k].req])
  /\ \A i \in DOMAIN stdout :
       MissingRequired(received[stdout[i].req]) =>
         (stdout[i].json.kind = "result" /\ stdout[i].json.isError)
  /\ \A c \in DOMAIN conversations :
       \A p \in DOMAIN conversations[c] : conversations[c][p].text # Undefined

\* An analyze_image call that does not supply exactly one image form.
NotExactlyOneImage(line) ==
  /\ CallsWithArgs(line, {"analyze_image"})
  /\ Truthy(line.args.imageUrl) = Truthy(line.args.imageBase64)

\* C13: analyze_image with neither or with both of imageUrl and imageBase64
\* is answered by an isError result and reaches no provider.
C13_ExactlyOneImage ==
  /\ \A k \in DOMAIN calls : ~NotExactlyOneImage(received[calls[k].req])
  /\ \A i \in DOMAIN stdout :
       NotExactlyOneImage(received[stdout[i].req]) =>
         (stdout[i].json.kind = "result" /\ stdout[i].json.isError)

IsPrefix(s, t) == Len(s) <= Len(t) /\ SubSeq(t, 1, Len(s)) = s

\* The generate_text calls on conversation c that have succeeded.
SucceededOn(c) ==
  {k \in DOMAIN calls : calls[k].tool = "generate_text" /\ calls[k].state = "ok"
                          /\ ConvOf(k) = c}

\* The conversationIds the requests read so far carry.
ConvIdsUsed ==
  {received[n].args.conversationId : n \in DOMAIN received} \ {Undefined, ""}

\* The transcripts hold two turns per successful call and the exchange of
\* every successful call.
TranscriptsComplete ==
  \A c \in ConvIdsUsed \cup DOMAIN conversations :
    /\ Len(MapGetOrEmpty(conversations, c)) = 2 * Cardinality(SucceededOn(c))
    /\ \A k \in SucceededOn(c) :
         HasExchange(MapGetOrEmpty(conversations, c),
                     UserTurn(PromptOf(k)), ModelTurn(calls[k].reply))

\* C15: a transcript only grows at its end, and after N successful
\* generate_text calls on an identifier it holds exactly 2N turns with the
\* exchange of every one of them, also when the calls overlapped.
C15_TranscriptAppendOnly ==
  [][ /\ \A c \in DOMAIN conversations :
           /\ c \in DOMAIN conversations'
           /\ IsPrefix(conversations[c], conversations'[c])
      /\ TranscriptsComplete'
    ]_vars

\* C15 witness: two calls on one conversation overlapped, both succeeded and
\* the transcript has four turns.
C15_Witness ==
  \E j, k \in DOMAIN calls :
    /\ k < j
    /\ Truthy(ConvOf(j))
    /\ j \in SucceededOn(ConvOf(j))
    /\ k \in SucceededOn(ConvOf(j))
    /\ k \notin calls[j].seen
    /\ Len(conversations[ConvOf(j)]) = 4

\* Requests that could touch the conversation store.
StoreLines ==
  { GenerateText("1", "p1", "c1"),
    GenerateText("2", "p2", "c2"),
    ToolCall("3", "generate_text",
             [Args EXCEPT !.prompt = "p3", !.conversationId = "c1",
                          !.model = "no-such-model"]),
    ToolCall("4", "count_tokens", [Args EXCEPT !.text = "t", !.conversationId = "c1"]),
    ToolCall("5", "get_help", [Args EXCEPT !.conversationId = "c2"]),
    Request("6", "initialize") }

NextStore ==
  \/ \E line \in StoreLines : Len(received) < MaxStoreLines /\ ReceiveLine(line)
  \/ RunMicrotask
  \/ \E i \in DOMAIN calls : \E ok \in BOOLEAN, reply \in Replies(i) : ProviderComplete(i, ok, reply, FullUsage)

SpecStore == InitDefault /\ [][NextStore]_vars

\* A generate_text call whose model the registry does not have.
UnknownModelCall(line) ==
  /\ CallsWithArgs(line, {"generate_text"})
  /\ OrElse(line.args.model, DEFAULT_MODEL) \notin DOMAIN GEMINI_MODELS

\* C16: the step in which a generate_text provider call fails, and the steps
\* in which a generate_text call with an unknown model is read and answered,
\* leave the conversation store as it was.
C16_FailureLeavesStore ==
  [][ /\ (\E k \in DOMAIN calls :
            /\ calls[k].tool = "generate_text"
            /\ calls[k].state = "pending"
            /\ calls'[k].state = "failed")
           => conversations' = conversations
      /\ (Len(received') > Len(received) /\ UnknownModelCall(received'[Len(received')]))
           => conversations' = conversations
      /\ (Len(stdout') > Len(stdout)
            /\ ( \/ UnknownModelCall(received'[stdout'[Len(stdout')].req])
                 \/ ProviderFailedFor(stdout'[Len(stdout')].req) ))
           => conversations' = conversations
    ]_vars

\* C16 witness: conversation c1 holds turns, a later call on c1 failed at the
\* provider and another one named an unknown model, and both were answered.
C16_Witness ==
  /\ "c1" \in DOMAIN conversations
  /\ \E i, j \in DOMAIN stdout :
       /\ UnknownModelCall(received[stdout[i].req])
       /\ received[stdout[i].req].args.conversationId = "c1"
       /\ ProviderFailedFor(stdout[j].req)
       /\ received[stdout[j].req].name = "generate_text"
       /\ received[stdout[j].req].args.conversationId = "c1"

\* C17: the conversation store changes only in the step in which a
\* generate_text call carrying a conversationId succeeds, and then only
\* under that identifier; no other request, tool or identifier touches a
\* transcript, and initialize does not reset the store.
C17_StoreFrame ==
  [][ conversations' # conversations =>
        \E k \in DOMAIN calls :
          /\ calls[k].tool = "generate_text"
          /\ calls[k].state = "pending"
          /\ calls'[k].state = "ok"
          /\ Truthy(ConvOf(k))
          /\ DOMAIN conversations' = (DOMAIN conversations) \cup {ConvOf(k)}
          /\ \A c \in DOMAIN conversations :
               c # ConvOf(k) => conversations'[c] = conversations[c]
    ]_vars

\* C17 witness: two conversations are stored, and initialize and a
\* count_tokens call carrying a conversationId were handled after the first
\* was written.
C17_Witness ==
  /\ DOMAIN conversations = {"c1", "c2"}
  /\ \E i, j \in DOMAIN stdout :
       /\ i < j
       /\ received[stdout[i].req].name = "generate_text"
       /\ stdout[i].json.isError = FALSE
       /\ received[stdout[j].req].method = "initialize"

\* ------------------------------------------------- capability listings
\* The list requests, interleaved with initialize, a generate_text call that
\* names a model other than the default and stores a conversation, and a
\* resource read.
CapLines ==
  { Request("1", "tools/list"),
    Request("2", "resources/list"),
    Request("3", "prompts/list"),
    Request("4", "initialize"),
    ToolCall("5", "generate_text",
             [Args EXCEPT !.prompt = "p1", !.conversationId = "c1",
                          !.model = "gemini-2.5-pro"]),
    ResourceRead("6", "gemini://models") }

NextCaps ==
  \/ \E line \in CapLines : Len(received) < MaxCapLines /\ ReceiveLine(line)
  \/ RunMicrotask
  \/ \E i \in DOMAIN calls : \E ok \in BOOLEAN, reply \in Replies(i) : ProviderComplete(i, ok, reply, FullUsage)

SpecCaps == Init /\ [][NextCaps]_vars

ListMethods == {"tools/list", "resources/list", "prompts/list"}

IsListRequest(line) == line.kind = "object" /\ line.method \in ListMethods

\* C18: any two responses to the same list method (tools/list,
\* resources/list or prompts/list) written by one process carry the same
\* result, whatever was handled between them.
C18_ListsStable ==
  \A i, j \in DOMAIN stdout :
    LET a == received[stdout[i].req]
        b == received[stdout[j].req]
    IN (IsListRequest(a) /\ IsListRequest(b) /\ a.method = b.method)
         => /\ stdout[i].json.kind = "result"
            /\ stdout[j].json.kind = "result"
            /\ stdout[i].json.text = stdout[j].json.text

\* C18 witness: tools/list was answered twice, and between the two answers
\* a generate_text call that named another model succeeded and stored a
\* conversation.
C18_Witness ==
  \E i, j \in DOMAIN stdout :
    /\ i < j
    /\ received[stdout[i].req].method = "tools/list"
    /\ received[stdout[j].req].method = "tools/list"
    /\ \E k \in DOMAIN calls :
         /\ stdout[i].req < calls[k].req
         /\ calls[k].req < stdout[j].req
         /\ calls[k].state = "ok"
         /\ calls[k].model # DEFAULT_MODEL
    /\ DOMAIN conversations # {}

\* ------------------------------------------------------ tool dispatch
ListedToolNames(defaultModel) ==
  {getAvailableTools(defaultModel)[i].name :
     i \in 1..Len(getAvailableTools(defaultModel))}

IsUnknownToolAnswer(json) ==
  /\ json.kind = "error"
  /\ json.code = -32602
  /\ Head(json.text) = "Unknown tool: "

NamedTool(line) == IF line.hasParams THEN line.name ELSE Undefined

\* C19: every tools/list result names generate_text, analyze_image,
\* count_tokens, list_models, embed_text, get_help, in that order and nothing
\* else; and the response to a tools/call is the 'Unknown tool' error exactly
\* when the name it carries is not one of the listed names.
C19_ListedEqualsDispatched ==
  LET six == << "generate_text", "analyze_image", "count_tokens",
                "list_models", "embed_text", "get_help" >>
  IN \A i \in DOMAIN stdout :
       LET line == received[stdout[i].req]
           json == stdout[i].json
       IN /\ (line.kind = "object" /\ line.method = "tools/list") =>
               /\ json.kind = "result"
               /\ Len(json.text) = Len(six)
               /\ \A t \in 1..Len(six) : json.text[t].name = six[t]
          /\ (line.kind = "object" /\ line.method = "tools/call") =>
               (IsUnknownToolAnswer(json)
                  <=> NamedTool(line) \notin ListedToolNames(DEFAULT_MODEL))

\* C19 witness: tools/list was answered, and so were a call to the listed
\* tool embed_text (by its handler) and a call to an unlisted name (by the
\* 'Unknown tool' error), in some order.
C19_Witness ==
  /\ \E i \in DOMAIN stdout : received[stdout[i].req].method = "tools/list"
  /\ \E i \in DOMAIN stdout :
       LET line == received[stdout[i].req]
       IN /\ line.method = "tools/call"
          /\ \/ NamedTool(line) = "embed_text" /\ ~IsUnknownToolAnswer(stdout[i].json)
             \/ NamedTool(line) = "nonexistent_tool" /\ IsUnknownToolAnswer(stdout[i].json)

\* ------------------------------------------------------ resource reads
ResLines ==
  { Request("1", "resources/list"),
    ResourceRead("2", "gemini://models"),
    ResourceRead("3", "gemini://capabilities"),
    ResourceRead("4", "gemini://help/usage"),
    ResourceRead("5", "gemini://help/parameters"),
    ResourceRead("6", "gemini://help/examples"),
    ResourceRead("7", "gemini://nonexistent"),
    ResourceRead("8", "gemini://help"),
    ResourceRead("9", ""),
    ResourceRead("10", Undefined),
    Request("11", "resources/read") }

NextRes ==
  \/ \E line \in ResLines : Len(received) < MaxResLines /\ ReceiveLine(line)
  \/ RunMicrotask

SpecRes == InitDefault /\ [][NextRes]_vars

ReadUri(line) == IF line.hasParams THEN line.uri ELSE Undefined

IsRead(line) == line.kind = "object" /\ line.method = "resources/read"

\* C20: the response to resources/read is a result exactly when the uri is
\* one of the five that resources/list returns; the result then has one
\* contents entry, with that uri and the mimeType resources/list gives it;
\* every other resources/read (uri missing or not listed) is answered with
\* error -32602.  resources/list itself returns five entries.
C20_ReadMatchesList ==
  \A i \in DOMAIN stdout :
    LET line == received[stdout[i].req]
        json == stdout[i].json
        listed == {getAvailableResources[r] : r \in 1..Len(getAvailableResources)}
        entry == {e \in listed : e.uri = ReadUri(line)}
    IN /\ (line.kind = "object" /\ line.method = "resources/list") =>
            /\ json.kind = "result"
            /\ json.text = getAvailableResources
            /\ Cardinality(listed) = 5
            /\ Cardinality({e.uri : e \in listed}) = 5
       /\ (IsRead(line) /\ entry # {}) =>
            /\ json.kind = "result"
            /\ Len(json.text) = 1
            /\ json.text[1] \in entry
       /\ (IsRead(line) /\ entry = {}) =>
            /\ json.kind = "error"
            /\ json.code = -32602

\* C20 witness: a read of a listed markdown resource and a read of an
\* unlisted uri have both been answered.
C20_Witness ==
  /\ \E i \in DOMAIN stdout :
       /\ IsRead(received[stdout[i].req])
       /\ ReadUri(received[stdout[i].req]) = "gemini://help/examples"
       /\ stdout[i].json.kind = "result"
  /\ \E i \in DOMAIN stdout :
       /\ IsRead(received[stdout[i].req])
       /\ ReadUri(received[stdout[i].req]) = "gemini://nonexistent"

\* ----------------------------------------------------------- initialize
\* C21: the response to initialize has the request's id and a result with
\* protocolVersion '2024-11-05', serverInfo.name 'mcp-server-gemini-enhanced',
\* serverInfo.version '0.5.0' and capabilities tools, resources and prompts.
C21_InitializeResult ==
  \A i \in DOMAIN stdout :
    LET line == received[stdout[i].req]
        json == stdout[i].json
    IN (line.kind = "object" /\ line.method = "initialize") =>
         /\ json.kind = "result"
         /\ json.id = line.id
         /\ Len(json.text) = 1
         /\ json.text[1].protocolVersion = "2024-11-05"
         /\ json.text[1].serverInfo.name = "mcp-server-gemini-enhanced"
         /\ json.text[1].serverInfo.version = "0.5.0"
         /\ {"tools", "resources", "prompts"} \subseteq json.text[1].capabilities

\* -------------------------------------------------------- default model
EnvLines ==
  { ToolCall("1", "generate_text", [Args EXCEPT !.prompt = "p1"]),
    ToolCall("2", "count_tokens", [Args EXCEPT !.text = "t"]),
    ToolCall("3", "generate_text", [Args EXCEPT !.prompt = "p1", !.model = "gemini-2.5-pro"]),
    ToolCall("4", "count_tokens", [Args EXCEPT !.text = "t", !.model = "gemini-2.5-flash"]) }

NextEnv ==
  \/ \E line \in EnvLines : Len(received) < MaxEnvLines /\ ReceiveLine(line)
  \/ RunMicrotask
  \/ \E i \in DOMAIN calls : \E ok \in BOOLEAN, reply \in Replies(i) : ProviderComplete(i, ok, reply, FullUsage)

SpecEnv == Init /\ [][NextEnv]_vars

\* C22: whatever GEMINI_DEFAULT_MODEL holds, the default model is a key of
\* the registry: the variable's value when that is a key, and otherwise
\* 'gemini-3-pro-preview', with one warning on stderr (and nothing on stdout)
\* when the variable is set to something else; a successful generate_text or
\* count_tokens call without a model argument reports the default as
\* metadata.model.
C22_DefaultModelInRegistry ==
  /\ DEFAULT_MODEL \in DOMAIN GEMINI_MODELS
  /\ DEFAULT_MODEL = (IF envModel \in DOMAIN GEMINI_MODELS
                        THEN envModel ELSE "gemini-3-pro-preview")
  /\ (envModel # Undefined /\ envModel \notin DOMAIN GEMINI_MODELS)
       <=> (\E i \in DOMAIN stderr : stderr[i].writer = "process.stderr.write")
  /\ \A i \in DOMAIN stdout : stdout[i].writer = "sendResponse"
  /\ \A i \in DOMAIN stdout :
       LET line == received[stdout[i].req]
       IN ( /\ line.name \in {"generate_text", "count_tokens"}
            /\ ~Truthy(line.args.model)
            /\ stdout[i].json.kind = "result"
            /\ ~stdout[i].json.isError )
          => stdout[i].json.model = DEFAULT_MODEL

\* ------------------------------------------------- encoding round trip
\* One call of every handler that builds a result, with a provider that may
\* leave out the text, the token count or the finish reason.
JsonLines ==
  { ToolCall("1", "generate_text", [Args EXCEPT !.prompt = "p1"]),
    ToolCall("2", "count_tokens", [Args EXCEPT !.text = "t"]),
    ToolCall("3", "embed_text", [Args EXCEPT !.text = "t"]),
    ToolCall("4", "list_models", [Args EXCEPT !.filter = "grounding"]),
    ToolCall("5", "get_help", Args),
    ResourceRead("6", "gemini://models"),
    Request("7", "initialize") }

NextJson ==
  \/ \E line \in JsonLines : Len(received) < MaxJsonLines /\ ReceiveLine(line)
  \/ RunMicrotask
  \/ \E i \in DOMAIN calls :
       \E ok \in BOOLEAN, reply \in Replies(i) \cup {Undefined}, usage \in UsageReports :
         ProviderComplete(i, ok, reply, usage)

SpecJson == InitDefault /\ [][NextJson]_vars

\* JSON.parse of a written line: the result payload the client sees.
JSONParse(json) ==
  [text |-> json.text, isError |-> json.isError, metadata |-> json.metadata]

Payload(response) ==
  [text |-> response.text, isError |-> response.isError,
   metadata |-> response.metadata]

\* C23: for every result passed to sendResponse, decoding the written line
\* gives the payload that was passed: the same content, isError and
\* metadata, with every metadata member and its value.
C23_RoundTrip ==
  \A i \in DOMAIN stdout :
    stdout[i].response.kind = "result" =>
      JSONParse(stdout[i].json) = Payload(stdout[i].response)

\* ---------------------------------------------------------- blank lines
\* C24: the step that reads an empty or all-whitespace line writes nothing
\* to stdout or stderr, starts no handler (no provider call, no queued
\* continuation, no rejected promise) and changes no state of the server.
C24_BlankLineDropped ==
  [][ (Len(received') > Len(received) /\ IsBlank(received'[Len(received')])) =>
        /\ stdout' = stdout
        /\ stderr' = stderr
        /\ calls' = calls
        /\ microq' = microq
        /\ rejection' = rejection
        /\ conversations' = conversations
        /\ DEFAULT_MODEL' = DEFAULT_MODEL
        /\ alive' = alive
    ]_vars

\* C24 witness: an empty line and an all-whitespace line were read after a
\* request, and nothing but that request's response and log entry exists.
C24_Witness ==
  /\ Len(received) = 3
  /\ received[1].kind = "object"
  /\ received[2].kind = "empty"
  /\ received[3].kind = "spaces"
  /\ Len(stdout) = 1
  /\ \A i \in DOMAIN stderr : stderr[i].writer # "console.error" \/ stderr[i].what = "Handling request"

\* --------------------------------------------------- generation config
GenerateWith(id, args) == ToolCall(id, "generate_text", [args EXCEPT !.prompt = "p1"])

ConfigLines ==
  { GenerateWith("1", Args),
    GenerateWith("2", [Args EXCEPT !.temperature = Num(0)]),
    GenerateWith("3", [Args EXCEPT !.temperature = Num(300)]),
    GenerateWith("4", [Args EXCEPT !.temperature = Num(-50), !.maxTokens = Num(100),
                                   !.topK = Num(5), !.topP = Num(50)]),
    GenerateWith("5", [Args EXCEPT !.maxTokens = Num(0)]),
    GenerateWith("6", [Args EXCEPT !.topK = Num(0), !.topP = Num(0)]),
    GenerateWith("7", [Args EXCEPT !.thinkingLevel = "high"]),
    GenerateWith("8", [Args EXCEPT !.thinkingLevel = "low",
                                   !.model = "gemini-3-flash-preview"]),
    GenerateWith("9", [Args EXCEPT !.thinkingLevel = "high",
                                   !.model = "gemini-2.5-flash"]),
    GenerateWith("10", [Args EXCEPT !.model = "gemini-2.5-pro"]) }

NextConfig ==
  \/ \E line \in ConfigLines : Len(received) < MaxConfigLines /\ ReceiveLine(line)
  \/ RunMicrotask
  \/ \E i \in DOMAIN calls : \E ok \in BOOLEAN, reply \in Replies(i) : ProviderComplete(i, ok, reply, FullUsage)

SpecConfig == InitDefault /\ [][NextConfig]_vars

ArgsOf(k) == received[calls[k].req].args

\* C25: every generate_text call forwards to the provider, for each of
\* temperature, maxTokens, topK and topP, the supplied value when one was
\* supplied (0 included) and the default (1.0, 2048, 40, 0.95) only when the
\* field was omitted.
C25_DefaultsOnlyForOmitted ==
  \A k \in DOMAIN calls :
    calls[k].tool = "generate_text" =>
      /\ calls[k].config.temperature =
           (IF ArgsOf(k).temperature.given THEN ArgsOf(k).temperature ELSE Num(100))
      /\ calls[k].config.maxOutputTokens =
           (IF ArgsOf(k).maxTokens.given THEN ArgsOf(k).maxTokens ELSE Num(2048))
      /\ calls[k].config.topK =
           (IF ArgsOf(k).topK.given THEN ArgsOf(k).topK ELSE Num(40))
      /\ calls[k].config.topP =
           (IF ArgsOf(k).topP.given THEN ArgsOf(k).topP ELSE Num(95))

\* C26: the temperature of every generate_text call that reaches the
\* provider lies between 0 and 2.
C26_TemperatureInRange ==
  \A k \in DOMAIN calls :
    calls[k].tool = "generate_text" =>
      /\ calls[k].config.temperature.value >= 0
      /\ calls[k].config.temperature.value <= 200

\* ------------------------------------------------------ thinking level
Gemini3Models == {"gemini-3-pro-preview", "gemini-3-flash-preview"}

\* C28: a generate_text call carries a thinkingConfig only when its model is
\* a Gemini 3 model; a call on gemini-2.5-pro, gemini-2.5-flash or
\* gemini-2.5-flash-lite carries none, whatever thinkingLevel was given.
C28_ThinkingOnlyGemini3 ==
  \A k \in DOMAIN calls :
    calls[k].tool = "generate_text" =>
      /\ calls[k].config.thinkingConfig # Undefined => calls[k].model \in Gemini3Models
      /\ (Truthy(ArgsOf(k).thinkingLevel) /\ calls[k].model \in Gemini3Models)
           => calls[k].config.thinkingConfig = ToUpperCase(ArgsOf(k).thinkingLevel)

\* ---------------------------------------------------------- list_models
ListModels(id, args) == ToolCall(id, "list_models", args)

ModelListLines ==
  { ListModels("1", Args),
    ListModels("2", NoArgs),
    ListModels("3", [Args EXCEPT !.filter = "all"]),
    ListModels("4", [Args EXCEPT !.filter = "thinking"]),
    ListModels("5", [Args EXCEPT !.filter = "grounding"]),
    ListModels("6", [Args EXCEPT !.filter = "json_mode"]),
    ListModels("7", [Args EXCEPT !.filter = "vision", !.conversationId = "c1"]),
    ListModels("8", [Args EXCEPT !.filter = "audio"]),
    GenerateText("9", "p1", "c1") }

NextList ==
  \/ \E line \in ModelListLines : Len(received) < MaxListLines /\ ReceiveLine(line)
  \/ RunMicrotask
  \/ \E i \in DOMAIN calls : \E ok \in BOOLEAN, reply \in Replies(i) : ProviderComplete(i, ok, reply, FullUsage)

SpecList == InitDefault /\ [][NextList]_vars

IsListModels(line) ==
  line.kind = "object" /\ line.method = "tools/call" /\ NamedTool(line) = "list_models"

FilterOf(line) == OrElse(line.args.filter, "all")

\* s lists, without repetition and in the order of t, exactly the elements of
\* t that satisfy Has.
IsSelection(s, t, Has(_)) ==
  /\ {s[i] : i \in DOMAIN s} = {t[i] : i \in {j \in DOMAIN t : Has(t[j])}}
  /\ \A i, j \in DOMAIN s :
       i < j => \E a, b \in DOMAIN t : a < b /\ t[a] = s[i] /\ t[b] = s[j]

\* C27: the response to list_models lists, in registry order, all five
\* models for filter 'all' or no filter, the models with thinking = true for
\* 'thinking', the four models with the grounding feature for 'grounding'
\* and the models with the json_mode feature for 'json_mode'; its
\* metadata.count is the number of models listed; and neither the step that
\* reads a list_models call nor the step that answers it starts a provider
\* call or changes the conversation store.
C27_ListModelsFilter ==
  [][ LET registry == << "gemini-3-pro-preview", "gemini-3-flash-preview",
                         "gemini-2.5-pro", "gemini-2.5-flash", "gemini-2.5-flash-lite" >>
          listed(json, Has(_)) == IsSelection(json.text, registry, Has)
      IN /\ \A i \in DOMAIN stdout' :
              LET line == received'[stdout'[i].req]
                  json == stdout'[i].json
                  f == FilterOf(line)
              IN IsListModels(line) =>
                   /\ json.kind = "result" /\ ~json.isError
                   /\ json.metadata.count = ToString(Len(json.text))
                   /\ f = "all" => json.text = registry
                   /\ f = "thinking" =>
                        listed(json, LAMBDA m : GEMINI_MODELS[m].thinking)
                   /\ f = "grounding" =>
                        /\ listed(json, LAMBDA m : "grounding" \in GEMINI_MODELS[m].features)
                        /\ json.text = SubSeq(registry, 1, 4)
                   /\ f = "json_mode" =>
                        listed(json, LAMBDA m : "json_mode" \in GEMINI_MODELS[m].features)
         /\ \A k \in DOMAIN calls' : ~IsListModels(received'[calls'[k].req])
         /\ (Len(received') > Len(received) /\ IsListModels(received'[Len(received')]))
              => (conversations' = conversations /\ calls' = calls)
         /\ (Len(stdout') > Len(stdout)
               /\ IsListModels(received'[stdout'[Len(stdout')].req]))
              => (conversations' = conversations /\ calls' = calls)
    ]_vars

\* C27 witness: a conversation is stored, and a list_models call with filter
\* 'grounding' was answered after it with four models.
C27_Witness ==
  /\ DOMAIN conversations # {}
  /\ \E i \in DOMAIN stdout :
       /\ IsListModels(received[stdout[i].req])
       /\ FilterOf(received[stdout[i].req]) = "grounding"
       /\ Len(stdout[i].json.text) = 4

\* ------------------------------------------- no initialization gate
InitLines ==
  { Request("1", "initialize"),
    Request("2", "ping"),
    Request("3", "tools/list"),
    ToolCall("4", "get_help", [Args EXCEPT !.topic = "tools"]),
    ToolCall("5", "count_tokens", [Args EXCEPT !.text = "t"]),
    ResourceRead("6", "gemini://help/usage"),
    Request("7", "nonexistent/method") }

NextInit ==
  \/ \E line \in InitLines : Len(received) < MaxInitLines /\ ReceiveLine(line)
  \/ RunMicrotask
  \/ \E i \in DOMAIN calls : \E ok \in BOOLEAN, reply \in Replies(i) : ProviderComplete(i, ok, reply, FullUsage)

SpecInit == InitDefault /\ [][NextInit]_vars

IsInitialize(line) == line.kind = "object" /\ line.method = "initialize"

InitializedBefore(n) == \E m \in 1..(n - 1) : IsInitialize(received[m])

CallFor(n) == {k \in DOMAIN calls : calls[k].req = n}

\* C29: two requests that are the same line get the same treatment wherever
\* they stand relative to initialize: the same response when the provider is
\* not involved (initialize itself included), and otherwise the same
\* provider call and, for the same outcome of that call, a response of the
\* same kind.
C29_NoInitializationGate ==
  /\ \A i, j \in DOMAIN stdout :
       LET a == stdout[i].req
           b == stdout[j].req
       IN received[a] = received[b] =>
            /\ (CallFor(a) = {} /\ CallFor(b) = {}) => stdout[i].json = stdout[j].json
            /\ \A k \in CallFor(a), l \in CallFor(b) :
                 calls[k].state = calls[l].state =>
                   /\ stdout[i].json.kind = stdout[j].json.kind
                   /\ stdout[i].json.isError = stdout[j].json.isError
                   /\ stdout[i].json.id = stdout[j].json.id
  /\ \A k, l \in DOMAIN calls :
       received[calls[k].req] = received[calls[l].req] =>
         /\ calls[k].op = calls[l].op
         /\ calls[k].model = calls[l].model
         /\ calls[k].contents = calls[l].contents
         /\ calls[k].config = calls[l].config

\* C29 witness: the same tools/list request was answered once before any
\* initialize and once after one.
C29_Witness ==
  \E i, j \in DOMAIN stdout :
    /\ received[stdout[i].req].method = "tools/list"
    /\ received[stdout[j].req] = received[stdout[i].req]
    /\ ~InitializedBefore(stdout[i].req)
    /\ InitializedBefore(stdout[j].req)

\* ------------------------------------------- pending provider calls
PendLines ==
  { ToolCall("1", "count_tokens", [Args EXCEPT !.text = "t"]),
    GenerateText("2", "p1", "c1"),
    Request("3", "ping"),
    ToolCall("4", "get_help", Args),
    ResourceRead("5", "gemini://models") }

NextPend ==
  \/ \E line \in PendLines : Len(received) < MaxPendLines /\ ReceiveLine(line)
  \/ RunMicrotask
  \/ \E i \in DOMAIN calls : \E ok \in BOOLEAN, reply \in Replies(i) : ProviderComplete(i, ok, reply, FullUsage)

\* Node runs every queued microtask; nothing is assumed of the provider,
\* which may leave a call pending for ever.
SpecPend == InitDefault /\ [][NextPend]_vars /\ WF_vars(RunMicrotask)

\* C30: a request that was read and is not itself waiting for the provider
\* (it made no provider call, or its call has returned) is eventually
\* answered, however many earlier requests are still waiting for the
\* provider and even if they wait for ever.
C30_PendingBlocksOnlyItself ==
  \A n \in 1..MaxPendLines :
    ( /\ n \in DOMAIN received
      /\ IsRequestWithId(received[n])
      /\ \A k \in CallFor(n) : calls[k].state # "pending" )
    ~> (ResponsesTo(n) # {})

\* C30 witness: the first request still waits for the provider while two
\* requests read after it, one of them a provider call of its own, have been
\* answered: the responses left in another order than the requests came.
C30_Witness ==
  /\ Len(received) = 3
  /\ \E k \in CallFor(1) : calls[k].state = "pending"
  /\ ResponsesTo(1) = {}
  /\ ResponsesTo(2) # {}
  /\ ResponsesTo(3) # {}
  /\ \E n \in {2, 3} : CallFor(n) # {}

\* ---------------------------------------------------- response order
OrderLines ==
  { Request("1", "initialize"),
    Request("2", "ping"),
    Request("3", "tools/list"),
    Request("4", "resources/list"),
    Request("5", "prompts/list"),
    ResourceRead("6", "gemini://models"),
    ToolCall("7", "list_models", Args),
    ToolCall("8", "get_help", Args),
    ToolCall("9", "count_tokens", [Args EXCEPT !.text = "t"]) }

NextOrder ==
  \/ \E line \in OrderLines : Len(received) < MaxOrderLines /\ ReceiveLine(line)
  \/ RunMicrotask
  \/ \E i \in DOMAIN calls : \E ok \in BOOLEAN, reply \in Replies(i) : ProviderComplete(i, ok, reply, FullUsage)

SpecOrder == InitDefault /\ [][NextOrder]_vars

\* handleRequest builds the response to these without an await
AnsweredAtOnce(line) ==
  /\ line.kind = "object"
  /\ line.method \in {"initialize", "ping", "tools/list", "resources/list", "prompts/list"}

\* handleRequest awaits a handler that makes no provider call
AnsweredAfterAwait(line) ==
  /\ line.kind = "object"
  /\ \/ line.method = "resources/read"
     \/ line.method = "tools/call" /\ NamedTool(line) \in {"list_models", "get_help"}

MakesNoProviderCall(line) == AnsweredAtOnce(line) \/ AnsweredAfterAwait(line)

\* C31, as claimed: the responses to requests that make no provider call are
\* written in the order the requests were received.
C31_AnsweredInOrder ==
  \A i, j \in DOMAIN stdout :
    ( /\ i < j
      /\ MakesNoProviderCall(received[stdout[i].req])
      /\ MakesNoProviderCall(received[stdout[j].req]) )
    => stdout[i].req < stdout[j].req

\* C31, amended: among the requests that make no provider call, a response
\* is written before the response to an earlier request only when the later
\* request is one handleRequest answers without an await and the earlier one
\* is handled through an awaited handler; and when a line is read with no
\* continuation queued (a new input chunk), every earlier such request has
\* been answered.
C31_OrderWithinKind ==
  [][ /\ \A i, j \in DOMAIN stdout' :
           ( /\ i < j
             /\ MakesNoProviderCall(received'[stdout'[i].req])
             /\ MakesNoProviderCall(received'[stdout'[j].req])
             /\ stdout'[i].req > stdout'[j].req )
           => /\ AnsweredAtOnce(received'[stdout'[i].req])
              /\ AnsweredAfterAwait(received'[stdout'[j].req])
      /\ (Len(received') > Len(received) /\ ~inChunk) =>
           \A n \in DOMAIN received :
             MakesNoProviderCall(received[n]) => ResponsesTo(n) # {}
    ]_vars

\* C31 witness: resources/read, list_models and ping were read in that order
\* in one chunk; ping was answered first, then the two awaited ones in order.
C31_Witness ==
  /\ Len(received) = 3
  /\ received[1].method = "resources/read"
  /\ NamedTool(received[2]) = "list_models"
  /\ received[3].method = "ping"
  /\ Len(stdout) = 3
  /\ stdout[1].req = 3 /\ stdout[2].req = 1 /\ stdout[3].req = 2

\* ------------------------------------------------- transcript shape
\* C32: every stored transcript has even length and is made of pairs: a user
\* turn at each odd position, directly followed by a model turn, the two
\* being the prompt and the reply of one successful generate_text call on
\* that conversationId.
C32_TranscriptAlternates ==
  \A c \in DOMAIN conversations :
    LET t == conversations[c]
    IN /\ Len(t) % 2 = 0
       /\ \A i \in DOMAIN t : t[i].role = (IF i % 2 = 1 THEN "user" ELSE "model")
       /\ \A i \in DOMAIN t :
            i % 2 = 1 =>
              \E k \in DOMAIN calls :
                /\ calls[k].tool = "generate_text"
                /\ calls[k].state = "ok"
                /\ ConvOf(k) = c
                /\ t[i] = UserTurn(PromptOf(k))
                /\ t[i + 1] = ModelTurn(OrElse(calls[k].reply, ""))

\* C32 witness: two calls on one conversationId overlapped and the one
\* received second completed first; the transcript holds its pair first and
\* the pair of the first call after it.
C32_Witness ==
  \E j, k \in DOMAIN calls :
    /\ k < j
    /\ Truthy(ConvOf(j))
    /\ ConvOf(k) = ConvOf(j)
    /\ calls[j].state = "ok" /\ calls[k].state = "ok"
    /\ calls[j].reply # calls[k].reply
    /\ ConvOf(j) \in DOMAIN conversations
    /\ Len(conversations[ConvOf(j)]) = 4
    /\ conversations[ConvOf(j)][2] = ModelTurn(calls[j].reply)
    /\ conversations[ConvOf(j)][4] = ModelTurn(calls[k].reply)

\* -------------------------------------------------------- notifications
IsNotification(line) == line.kind = "object" /\ line.id = Undefined

\* C33: no line on stdout is caused by a notification (a message without an
\* id member), whatever its method.
C33_NotificationsUnanswered ==
  \A i \in DOMAIN stdout : ~IsNotification(received[stdout[i].req])

\* --------------------------------------------------------- tool schemas
\* GEMINI_DEFAULT_MODEL unset, set to each key of the registry, or set to a
\* name the registry does not have.
SchemaEnvModels ==
  {Undefined, "gemini-1.0-bogus"} \cup {ModelNames[i] : i \in 1..Len(ModelNames)}

InitSchema == \E env \in SchemaEnvModels : Start(env)

SchemaLines ==
  { Request("1", "tools/list"),
    Request("2", "initialize"),
    ToolCall("3", "analyze_image", [Args EXCEPT !.prompt = "p1", !.imageUrl = "u"]),
    ToolCall("4", "count_tokens", [Args EXCEPT !.text = "t"]),
    ToolCall("5", "embed_text", [Args EXCEPT !.text = "t"]) }

NextSchema ==
  \/ \E line \in SchemaLines : Len(received) < MaxSchemaLines /\ ReceiveLine(line)
  \/ RunMicrotask
  \/ \E i \in DOMAIN calls : \E ok \in BOOLEAN, reply \in Replies(i) : ProviderComplete(i, ok, reply, FullUsage)

SpecSchema == InitSchema /\ [][NextSchema]_vars

\* C34: in every tools/list result, each tool whose model parameter has an
\* enum and a default has the default among the enum's values.
C34_DefaultWithinEnum ==
  \A i \in DOMAIN stdout :
    received[stdout[i].req].method = "tools/list" =>
      \A t \in DOMAIN stdout[i].json.text :
        LET tool == stdout[i].json.text[t]
        IN (tool.modelEnum # << >> /\ tool.modelDefault # Undefined) =>
             \E e \in DOMAIN tool.modelEnum : tool.modelEnum[e] = tool.modelDefault

====
